---- MODULE Spec2Model ----
(***************************************************************************)
(* Model of tornado_json/requesthandlers.py: BaseHandler.db_conn and       *)
(* APIHandler.initialize / APIHandler.write_error, together with the       *)
(* response object of the hosting framework that those methods drive.      *)
(*                                                                         *)
(* A handler is a record of the response fields of tornado.web's           *)
(* RequestHandler (_status_code, _reason, the Content-Type header,         *)
(* _write_buffer, _finished) plus `sent`, the copy of the response that    *)
(* finish() flushed to the connection.                                     *)
(***************************************************************************)
EXTENDS Integers, Sequences, FiniteSets, TLC

VARIABLES application, self, ncalls, call, access

vars == <<application, self, ncalls, call, access>>

----------------------------------------------------------------------------
(* Bounds *)

\* write_error calls made on one request's handler
MaxCalls == 2
\* chunks an endpoint writes before it fails
MaxWrites == 1

----------------------------------------------------------------------------
(* Python values *)

None == "<None>"
NoAttr == "<no such attribute>"
Traceback == "<traceback>"

\* Messages an application attaches as log_message, and renderings str()
\* gives of an exception.
LogMessages == {"quota exceeded"}
Renderings == {"division by zero"}

\* Classes an endpoint can raise, and their method resolution orders.
Classes == {"APIError", "ValidationError", "HTTPError", "ZeroDivisionError"}

MRO(cls) ==
    CASE cls = "APIError" -> {"APIError", "HTTPError", "Exception"}
      [] cls = "HTTPError" -> {"HTTPError", "Exception"}
      [] cls = "ValidationError" -> {"ValidationError", "Exception"}
      [] cls = "ZeroDivisionError" ->
             {"ZeroDivisionError", "ArithmeticError", "Exception"}

\* An exception instance: its class, its log_message attribute (NoAttr when
\* the instance has none, None when it is set to None) and its str().
\* HTTPError and its subclass APIError always define log_message.
Exceptions ==
    { e \in [cls : Classes, log_message : LogMessages \cup {None, NoAttr},
              str : Renderings] :
        "HTTPError" \in MRO(e.cls) => e.log_message # NoAttr }

isinstance(exception, c) == c \in MRO(exception.cls)

hasattr_log_message(exception) == exception.log_message # NoAttr

str(exception) == exception.str

\* **kwargs of write_error: empty, or exc_info = (type, value, traceback).
NoKwargs == [k \in {} |-> None]

Kwargs == {NoKwargs} \cup {[exc_info |-> <<e.cls, e, Traceback>>] : e \in Exceptions}

StatusCodes == {400, 500, 599}

\* The reason phrase set_status() and clear() store in self._reason:
\* httputil.responses, and "Unknown" for a code that table does not hold.
responses(code) ==
    CASE code = 200 -> "OK"
      [] code = 400 -> "Bad Request"
      [] code = 404 -> "Not Found"
      [] code = 500 -> "Internal Server Error"
      [] OTHER -> "Unknown"

\* Connections the application can be constructed with: none, a connection
\* object, and a connection object whose truth value is false (an object
\* with __len__() == 0 or __bool__() False, such as an empty pool).
NoConn == [id |-> "None", truthy |-> FALSE]
DbConns == {NoConn, [id |-> "conn", truthy |-> TRUE], [id |-> "empty_pool", truthy |-> FALSE]}

----------------------------------------------------------------------------
(* The response object (tornado.web.RequestHandler) *)

NothingSent == [flushed |-> FALSE, status |-> 0, reason |-> "", content_type |-> "", body |-> <<>>]

\* RequestHandler.__init__: clear() on a fresh object.
NewHandler ==
    [status |-> 200, reason |-> "OK", content_type |-> "text/html; charset=UTF-8",
     buffer |-> <<>>, finished |-> FALSE,
     sent |-> NothingSent]

\* JSON envelopes; a raw chunk is what an endpoint wrote itself.
FailEnvelope(data) == [status |-> "fail", data |-> data]
ErrorEnvelope(message, data, code) ==
    [status |-> "error", message |-> message, data |-> data, code |-> code]
RawChunk == [status |-> "raw", data |-> "partial output"]

\* Execution of a method body: the handler, the response-affecting calls made
\* so far, the error-severity log entries emitted, and the exception raised
\* (None while the body is still running normally).
Begin(h) == [h |-> h, ops |-> <<>>, logs |-> 0, raised |-> None]

Raise(x, exc) == [x EXCEPT !.raised = exc]

Op(x, name) == [x EXCEPT !.ops = Append(@, name)]

\* RequestHandler.clear(): resets headers, body buffer, status and reason.
clear(x) ==
    IF x.raised # None THEN x
    ELSE [Op(x, "clear") EXCEPT
            !.h.content_type = "text/html; charset=UTF-8",
            !.h.buffer = <<>>,
            !.h.status = 200,
            !.h.reason = responses(200)]

\* RequestHandler.set_status(status_code)
set_status(x, status_code) ==
    IF x.raised # None THEN x
    ELSE [Op(x, "set_status") EXCEPT
            !.h.status = status_code,
            !.h.reason = responses(status_code)]

\* RequestHandler.set_header("Content-Type", value)
set_header(x, value) ==
    IF x.raised # None THEN x
    ELSE [x EXCEPT !.h.content_type = value]

\* RequestHandler.write(chunk): refuses after finish(); a dict chunk is sent
\* as JSON.
write(x, chunk) ==
    IF x.raised # None THEN x
    ELSE IF x.h.finished THEN Raise(x, "RuntimeError")
    ELSE [x EXCEPT
            !.h.content_type =
                IF chunk = RawChunk THEN @ ELSE "application/json; charset=UTF-8",
            !.h.buffer = Append(@, chunk)]

\* RequestHandler.finish(): refuses a second call; flushes status line,
\* headers and buffered body to the connection.
finish(x) ==
    IF x.raised # None THEN x
    ELSE IF x.h.finished THEN Raise(Op(x, "finish"), "RuntimeError")
    ELSE [Op(x, "finish") EXCEPT
            !.h.sent = [flushed |-> TRUE, status |-> x.h.status,
                        reason |-> x.h.reason,
                        content_type |-> x.h.content_type, body |-> x.h.buffer],
            !.h.buffer = <<>>,
            !.h.finished = TRUE]

\* logging.error(msg)
logging_error(x) ==
    IF x.raised # None THEN x ELSE [x EXCEPT !.logs = @ + 1]

----------------------------------------------------------------------------
(* JSendMixin: the two rendering primitives used by write_error *)

fail(x, data) ==
    IF x.raised # None THEN x
    ELSE write(Op(x, "fail"), FailEnvelope(data))

error(x, message, data, code) ==
    IF x.raised # None THEN x
    ELSE write(Op(x, "error"), ErrorEnvelope(message, data, code))

----------------------------------------------------------------------------
(* BaseHandler *)

\* BaseHandler.db_conn (property): the result of one access, with the
\* application as the access leaves it.
db_conn(app) ==
    LET conn == app.db_conn
    IN IF ~conn.truthy
       THEN [app |-> app, raised |-> "AttributeError",
             message |-> "No database connection was provided.", value |-> NoConn]
       ELSE [app |-> app, raised |-> None, message |-> "", value |-> conn]

----------------------------------------------------------------------------
(* APIHandler *)

\* APIHandler.initialize
initialize(x) == set_header(x, "application/json")

\* self.settings.get("debug"), taken as a truth value
settings_get_debug(settings) == "debug" \in DOMAIN settings /\ settings["debug"]

\* any(isinstance(exception, c) for c in [APIError, ValidationError])
classified(exception) ==
    \E c \in {"APIError", "ValidationError"} : isinstance(exception, c)

\* fail() given str(exception) whatever the exception carries
fail_data_str(exception) == str(exception)

\* exception.log_message if hasattr(exception, "log_message") else str(exception)
fail_data(exception) ==
    IF hasattr_log_message(exception) THEN exception.log_message ELSE str(exception)

\* error() given the log_message whatever the debug setting
error_data_ungated(exception, settings) ==
    IF hasattr_log_message(exception) THEN exception.log_message ELSE None

\* exception.log_message if self.settings.get("debug") else None
\* (the attribute read raises AttributeError on an instance without it)
error_data(exception, settings) ==
    IF settings_get_debug(settings) THEN exception.log_message ELSE None

error_data_raises(exception, settings) ==
    settings_get_debug(settings) /\ ~hasattr_log_message(exception)

\* if not "exc_info" in kwargs.keys(): log, force 500, generic error, finish
absent_context(x, kwargs) ==
    IF x.raised # None THEN x
    ELSE IF ~("exc_info" \in DOMAIN kwargs)
         THEN finish(error(set_status(logging_error(x), 500),
                           "Internal Server Error", None, 500))
         ELSE x

\* exception = kwargs["exc_info"][1]; classification; fail() or error();
\* finish()
translate(x, status_code, kwargs, settings) ==
    IF x.raised # None THEN x
    ELSE IF ~("exc_info" \in DOMAIN kwargs) THEN Raise(x, "KeyError")
    ELSE LET exception == kwargs["exc_info"][2]
         IN IF classified(exception)
            THEN finish(fail(x, fail_data(exception)))
            ELSE IF error_data_raises(exception, settings)
                 THEN Raise(x, "AttributeError")
                 ELSE finish(error(x, x.h.reason,
                                   error_data(exception, settings), status_code))

\* write_error with the reset placed after the status write
write_error_reset_last(h, status_code, kwargs, settings) ==
    translate(clear(set_status(absent_context(Begin(h), kwargs), status_code)),
              status_code, kwargs, settings)

\* APIHandler.write_error(status_code, **kwargs)
write_error(h, status_code, kwargs, settings) ==
    translate(set_status(absent_context(clear(Begin(h)), kwargs), status_code),
              status_code, kwargs, settings)

----------------------------------------------------------------------------
(* State machine *)

Settings == {[k \in {} |-> TRUE], [debug |-> TRUE], [debug |-> FALSE]}

NoException == [cls |-> "<none>", log_message |-> NoAttr, str |-> ""]

NoCall ==
    [n |-> 0, status_code |-> 0, has_exc_info |-> FALSE, exception |-> NoException,
     pre |-> NewHandler, ops |-> <<>>, logs |-> 0, raised |-> None]

NoAccess ==
    [done |-> FALSE, raised |-> None, message |-> "", value |-> NoConn,
     app_before |-> [db_conn |-> NoConn, settings |-> [debug |-> FALSE]],
     self_before |-> NewHandler]

Init ==
    /\ application \in [db_conn : DbConns, settings : Settings]
    /\ self = initialize(Begin(NewHandler)).h
    /\ ncalls = 0
    /\ call = NoCall
    /\ access = NoAccess

\* The framework constructs a handler for the next request and initializes it.
Dispatch ==
    /\ self' = initialize(Begin(NewHandler)).h
    /\ ncalls' = 0
    /\ call' = NoCall
    /\ access' = NoAccess
    /\ UNCHANGED application

\* The endpoint sets a status and writes part of a body before it fails.
EndpointWrite(status_code) ==
    /\ ncalls = 0
    /\ ~self.finished
    /\ Len(self.buffer) < MaxWrites
    /\ self' = write(set_status(Begin(self), status_code), RawChunk).h
    /\ access' = NoAccess
    /\ UNCHANGED <<application, ncalls, call>>

\* One call of write_error, on a fresh or an already finished response.
WriteError(status_code, kwargs) ==
    /\ ncalls < MaxCalls
    /\ LET r == write_error(self, status_code, kwargs, application.settings)
       IN /\ self' = r.h
          /\ call' = [n |-> ncalls + 1, status_code |-> status_code,
                      has_exc_info |-> "exc_info" \in DOMAIN kwargs,
                      exception |-> IF "exc_info" \in DOMAIN kwargs
                                    THEN kwargs["exc_info"][2] ELSE NoException,
                      pre |-> self, ops |-> r.ops, logs |-> r.logs,
                      raised |-> r.raised]
    /\ ncalls' = ncalls + 1
    /\ access' = NoAccess
    /\ UNCHANGED application

\* One read of the db_conn property.
DbConn ==
    /\ LET r == db_conn(application)
       IN /\ application' = r.app
          /\ access' = [done |-> TRUE, raised |-> r.raised, message |-> r.message,
                        value |-> r.value, app_before |-> application,
                        self_before |-> self]
    /\ UNCHANGED <<self, ncalls, call>>

Next ==
    \/ Dispatch
    \/ \E status_code \in {200, 404} : EndpointWrite(status_code)
    \/ \E status_code \in StatusCodes, kwargs \in Kwargs : WriteError(status_code, kwargs)
    \/ DbConn

Spec == Init /\ [][Next]_vars

----------------------------------------------------------------------------
(* Vocabulary of the properties *)

\* The last write_error call began on a response not yet finalized, which is
\* how the framework invokes it (once per failed request).
Fresh == call.n > 0 /\ ~call.pre.finished

\* The last write_error call began on a response an earlier call finalized.
Second == call.n > 0 /\ call.pre.finished

Debug == "debug" \in DOMAIN application.settings /\ application.settings["debug"]

SafeKind(e) == "APIError" \in MRO(e.cls) \/ "ValidationError" \in MRO(e.cls)

CallKwargs == [exc_info |-> <<call.exception.cls, call.exception, Traceback>>]

Count(ops, name) == Cardinality({i \in DOMAIN ops : ops[i] = name})

\* The message text of an error: its log_message when it has one, else str().
MessageText(e) == IF e.log_message # NoAttr THEN e.log_message ELSE e.str

ExceptionTexts(e) == {e.log_message, e.str} \ {None, NoAttr}

----------------------------------------------------------------------------
(* Properties *)

\* C1: a call with error context, an exception that is neither an APIError
\* nor a ValidationError, and debug false or unset, returns having sent one
\* Error envelope with null data, the reason phrase as message and the status
\* code as code; no field holds text of the exception, and the response is
\* the same whichever unclassified exception was passed.
C1_NoDisclosureWithoutDebug ==
    (Fresh /\ call.has_exc_info /\ ~SafeKind(call.exception) /\ ~Debug) =>
        /\ call.raised = None
        /\ self.sent.flushed
        /\ self.sent.body =
             <<ErrorEnvelope(responses(call.status_code), None, call.status_code)>>
        /\ \A i \in DOMAIN self.sent.body :
             /\ self.sent.body[i].data = None
             /\ self.sent.body[i].message \notin ExceptionTexts(call.exception)
        /\ \A e \in Exceptions :
             ~SafeKind(e) =>
                write_error(call.pre, call.status_code,
                            [exc_info |-> <<e.cls, e, Traceback>>],
                            application.settings).h = self

C1_Witness ==
    /\ Fresh /\ call.has_exc_info /\ ~SafeKind(call.exception) /\ ~Debug
    /\ call.exception.log_message \in LogMessages
    /\ call.pre.buffer # <<>>
    /\ self.sent.flushed

\* C2: a call with error context, debug true and an unclassified exception
\* (with or without a log_message attribute) returns having sent one Error
\* envelope whose data is the error's message text, whose message is the
\* reason phrase and whose code is the status code, and the response is
\* finalized.
C2_DebugDisclosesMessage ==
    (Fresh /\ call.has_exc_info /\ ~SafeKind(call.exception) /\ Debug) =>
        /\ call.raised = None
        /\ self.finished
        /\ self.sent.body =
             <<ErrorEnvelope(responses(call.status_code),
                             MessageText(call.exception), call.status_code)>>

\* C3: a call whose exception is an APIError or a ValidationError sends one
\* Fail envelope whose data is the log_message when the exception has that
\* attribute and str(exception) otherwise, and does the same under every
\* debug setting.
C3_SafeKindsFail ==
    (Fresh /\ call.has_exc_info /\ SafeKind(call.exception)) =>
        /\ call.raised = None
        /\ self.sent.flushed
        /\ self.sent.body =
             <<FailEnvelope(IF call.exception.log_message # NoAttr
                            THEN call.exception.log_message
                            ELSE call.exception.str)>>
        /\ Count(call.ops, "error") = 0
        /\ \A s \in Settings :
             write_error(call.pre, call.status_code, CallKwargs, s).h = self

C3_Witness ==
    /\ Fresh /\ call.has_exc_info /\ Debug
    /\ call.exception.cls = "APIError"
    /\ call.exception.log_message = "quota exceeded"
    /\ self.sent.body = <<FailEnvelope("quota exceeded")>>

\* C4: a call without error context forces status 500, which is still the
\* response status when the call ends, emits exactly one error log entry and
\* sends the generic Error envelope ("Internal Server Error", 500, no data).
C4_AbsentContext ==
    (Fresh /\ ~call.has_exc_info) =>
        /\ self.status = 500
        /\ self.sent.flushed /\ self.sent.status = 500
        /\ call.logs = 1
        /\ self.sent.body = <<ErrorEnvelope("Internal Server Error", None, 500)>>

\* C5: write_error never raises: every call returns normally with the
\* response finalized.
C5_NeverRaises ==
    Fresh => (call.raised = None /\ self.finished)

\* C6: every call writes exactly one envelope (one fail() or error()) and
\* finalizes the response exactly once.
C6_ExactlyOneEnvelope ==
    Fresh =>
        /\ Count(call.ops, "fail") + Count(call.ops, "error") = 1
        /\ Count(call.ops, "finish") = 1
        /\ self.sent.flushed /\ Len(self.sent.body) = 1

\* C7: with error context present the partially written response is reset
\* first and the status set afterwards, so the status of the handler, and of
\* the response at finalization, is the supplied status code.
C7_ResetThenStatus ==
    (Fresh /\ call.has_exc_info) =>
        /\ Len(call.ops) >= 2
        /\ call.ops[1] = "clear" /\ call.ops[2] = "set_status"
        /\ Count(call.ops, "clear") = 1
        /\ self.status = call.status_code
        /\ self.finished =>
             /\ self.sent.status = call.status_code
             /\ self.sent.reason = responses(call.status_code)
             /\ \A i \in DOMAIN self.sent.body : self.sent.body[i] # RawChunk

C7_Witness ==
    /\ Fresh /\ call.has_exc_info /\ self.finished
    /\ call.pre.buffer # <<>>
    /\ call.pre.status # call.status_code
    /\ self.sent.status = call.status_code

\* C8: a second call on a response that a first call finalized leaves the
\* response's status, headers and body as the first call left them.
C8_SecondCallAltersNothing ==
    Second =>
        /\ self.status = call.pre.status
        /\ self.reason = call.pre.reason
        /\ self.content_type = call.pre.content_type
        /\ self.buffer = call.pre.buffer
        /\ self.sent = call.pre.sent

\* C9: db_conn returns the injected connection whenever one was provided,
\* raises AttributeError("No database connection was provided.") only when
\* none was provided, and changes neither the application nor the handler.
C9_ReturnsWheneverProvided ==
    access.done =>
        /\ access.app_before.db_conn # NoConn =>
             (access.raised = None /\ access.value = access.app_before.db_conn)
        /\ access.raised # None =>
             /\ access.app_before.db_conn = NoConn
             /\ access.raised = "AttributeError"
             /\ access.message = "No database connection was provided."
        /\ application = access.app_before
        /\ self = access.self_before

\* C10: finish() is the last response-affecting operation of every call; no
\* set_status, fail(), error() or finish() follows it.
C10_FinishIsLast ==
    Fresh => \A i \in DOMAIN call.ops : call.ops[i] = "finish" => i = Len(call.ops)

====
